---- MODULE Spec2Model ----
(***************************************************************************)
(* ParameterExpression (qiskit/circuit/parameterexpression.py): symbolic   *)
(* expressions over Parameters, with the replay log (_qpy_replay) that     *)
(* every operation extends.                                                *)
(*                                                                         *)
(* The heap holds the ParameterExpression objects, each with the slots of  *)
(* the class; list objects (the replay logs) live in their own store and   *)
(* are held by reference, as in Python, so that list.copy() and            *)
(* list.append() mean what they mean there.                                *)
(***************************************************************************)
EXTENDS Integers, Sequences, FiniteSets, TLC

(***************************************************************************)
(* Bounds of the model.                                                    *)
(***************************************************************************)
\* Number of ParameterExpression objects created by operations in one run.
MaxOps == 2

(***************************************************************************)
(* Python dict: insertion-ordered sequence of <<key, value>> pairs with    *)
(* unique keys.                                                            *)
(***************************************************************************)
DictKeys(d) == { d[i][1] : i \in DOMAIN d }

DictHas(d, k) == \E i \in DOMAIN d : d[i][1] = k

DictGet(d, k) == d[CHOOSE i \in DOMAIN d : d[i][1] = k][2]

\* d[k] = v : an existing key keeps its position, a new key goes last.
DictSet(d, k, v) ==
    IF DictHas(d, k)
    THEN [i \in DOMAIN d |-> IF d[i][1] = k THEN <<k, v>> ELSE d[i]]
    ELSE Append(d, <<k, v>>)

RECURSIVE DictUpdate(_, _)
\* d.update(e), also {**d, **e}
DictUpdate(d, e) ==
    IF e = <<>> THEN d
    ELSE DictUpdate(DictSet(d, e[1][1], e[1][2]), Tail(e))

RECURSIVE DictFilter(_, _)
\* {k: v for k, v in d.items() if k in keep}
DictFilter(d, keep) ==
    IF d = <<>> THEN <<>>
    ELSE IF d[1][1] \in keep
         THEN <<d[1]>> \o DictFilter(Tail(d), keep)
         ELSE DictFilter(Tail(d), keep)

(***************************************************************************)
(* The native evaluator (SymbolExpr).  Values are terms:                   *)
(*   <<"num", n>>, <<"inf">>, <<"sym", name>>, <<fn, a>>, <<op, a, b>>     *)
(* built through constructors that fold constants and eliminate symbols    *)
(* multiplied by zero; a division by zero is infinite.                     *)
(***************************************************************************)
Num(n) == <<"num", n>>

Inf == <<"inf">>

Symbol(name) == <<"sym", name>>

IsNum(t) == t[1] = "num"

BinaryFns == {"add", "sub", "mul", "div", "pow"}

RECURSIVE IntPow(_, _)
IntPow(a, n) == IF n = 0 THEN 1 ELSE a * IntPow(a, n - 1)

ExprAdd(a, b) ==
    IF a = Inf \/ b = Inf THEN Inf
    ELSE IF IsNum(a) /\ IsNum(b) THEN Num(a[2] + b[2])
    ELSE IF a = Num(0) THEN b
    ELSE IF b = Num(0) THEN a
    ELSE <<"add", a, b>>

ExprSub(a, b) ==
    IF a = Inf \/ b = Inf THEN Inf
    ELSE IF IsNum(a) /\ IsNum(b) THEN Num(a[2] - b[2])
    ELSE IF b = Num(0) THEN a
    ELSE <<"sub", a, b>>

ExprMul(a, b) ==
    IF a = Inf \/ b = Inf THEN Inf
    ELSE IF IsNum(a) /\ IsNum(b) THEN Num(a[2] * b[2])
    ELSE IF a = Num(0) \/ b = Num(0) THEN Num(0)
    ELSE IF a = Num(1) THEN b
    ELSE IF b = Num(1) THEN a
    ELSE <<"mul", a, b>>

ExprDiv(a, b) ==
    IF a = Inf \/ b = Inf THEN Inf
    ELSE IF b = Num(0) THEN Inf
    ELSE IF b = Num(1) THEN a
    ELSE IF a = Num(0) THEN Num(0)
    ELSE IF IsNum(a) /\ IsNum(b) /\ a[2] % (IF b[2] < 0 THEN -b[2] ELSE b[2]) = 0
         THEN Num(IF b[2] < 0 THEN -(a[2] \div (-b[2])) ELSE a[2] \div b[2])
    ELSE <<"div", a, b>>

ExprPow(a, b) ==
    IF a = Inf \/ b = Inf THEN Inf
    ELSE IF b = Num(0) THEN Num(1)
    ELSE IF b = Num(1) THEN a
    ELSE IF IsNum(a) /\ IsNum(b) /\ b[2] > 0 THEN Num(IntPow(a[2], b[2]))
    ELSE IF a = Num(0) /\ IsNum(b) THEN Inf
    ELSE <<"pow", a, b>>

\* operator.add, operator.sub, ... on two native values
ExprBinary(fn, a, b) ==
    CASE fn = "add" -> ExprAdd(a, b)
      [] fn = "sub" -> ExprSub(a, b)
      [] fn = "mul" -> ExprMul(a, b)
      [] fn = "div" -> ExprDiv(a, b)
      [] fn = "pow" -> ExprPow(a, b)

\* SymbolExpr.sin, .cos, ..., .conjugate: kept symbolic unless exact
ExprUnary(fn, a) ==
    IF a = Inf THEN Inf
    ELSE IF fn = "conjugate" /\ IsNum(a) THEN a
    ELSE IF fn = "abs" /\ IsNum(a) THEN Num(IF a[2] < 0 THEN -a[2] ELSE a[2])
    ELSE IF fn = "sign" /\ IsNum(a)
         THEN Num(IF a[2] < 0 THEN -1 ELSE IF a[2] = 0 THEN 0 ELSE 1)
    ELSE <<fn, a>>

RECURSIVE ExprSymbols(_)
\* SymbolExpr.symbols(): the names free in the value
ExprSymbols(t) ==
    IF t[1] = "sym" THEN {t[2]}
    ELSE IF t[1] \in {"num", "inf"} THEN {}
    ELSE IF t[1] = "D" THEN ExprSymbols(t[3])
    ELSE IF Len(t) = 2 THEN ExprSymbols(t[2])
    ELSE ExprSymbols(t[2]) \cup ExprSymbols(t[3])

RECURSIVE ExprSubs(_, _)
\* SymbolExpr.subs / SymbolExpr.bind: simultaneous replacement of the named
\* symbols (map: dict name -> value), the result rebuilt bottom-up
ExprSubs(t, map) ==
    IF t[1] = "sym" THEN (IF DictHas(map, t[2]) THEN DictGet(map, t[2]) ELSE t)
    ELSE IF t[1] \in {"num", "inf"} THEN t
    ELSE IF t[1] = "D" THEN <<"D", t[2], ExprSubs(t[3], map)>>
    ELSE IF Len(t) = 2 THEN ExprUnary(t[1], ExprSubs(t[2], map))
    ELSE ExprBinary(t[1], ExprSubs(t[2], map), ExprSubs(t[3], map))

RECURSIVE ExprDerivative(_, _)
\* SymbolExpr.derivative(symbol)
ExprDerivative(t, s) ==
    IF t[1] = "sym" THEN (IF t[2] = s THEN Num(1) ELSE Num(0))
    ELSE IF t[1] \in {"num", "inf"} THEN Num(0)
    ELSE IF t[1] = "D" THEN ExprMul(<<"D", "D", t>>, ExprDerivative(t[3], s))
    ELSE IF Len(t) = 2 THEN
        LET a == t[2]
            da == ExprDerivative(a, s)
        IN  CASE t[1] = "sin" -> ExprMul(ExprUnary("cos", a), da)
              [] t[1] = "cos" -> ExprMul(ExprMul(Num(-1), ExprUnary("sin", a)), da)
              [] t[1] = "exp" -> ExprMul(t, da)
              [] t[1] = "log" -> ExprDiv(da, a)
              [] OTHER -> ExprMul(<<"D", t[1], a>>, da)
    ELSE
        LET a == t[2]
            b == t[3]
            da == ExprDerivative(a, s)
            db == ExprDerivative(b, s)
        IN  CASE t[1] = "add" -> ExprAdd(da, db)
              [] t[1] = "sub" -> ExprSub(da, db)
              [] t[1] = "mul" -> ExprAdd(ExprMul(da, b), ExprMul(a, db))
              [] t[1] = "div" ->
                    ExprDiv(ExprSub(ExprMul(da, b), ExprMul(a, db)), ExprMul(b, b))
              [] t[1] = "pow" ->
                    IF IsNum(b)
                    THEN ExprMul(ExprMul(b, ExprPow(a, Num(b[2] - 1))), da)
                    ELSE ExprMul(t, ExprAdd(ExprMul(db, ExprUnary("log", a)),
                                            ExprDiv(ExprMul(b, da), a)))

\* SymbolExpr.is_infinite, and == float("inf")
ExprIsInfinite(t) == t = Inf


\* SymbolExpr.value(): the scalar of a closed value; raises while a symbol is free
ExprValue(t) ==
    IF ExprSymbols(t) = {} THEN <<"value", t>> ELSE <<"RuntimeError">>

(***************************************************************************)
(* Parameters.  A Parameter is a ParameterExpression of its own symbol,    *)
(* with _standalone_param set and an empty replay log; two Parameters of   *)
(* one name are different Parameters (their uuids differ).  A Parameter is *)
(* identified by its place in ParamNames, which is also its heap address.  *)
(***************************************************************************)
ParamNames == <<"x", "x", "y">>

Parameters == DOMAIN ParamNames

\* Parameter.name
ParamName(p) == ParamNames[p]

(***************************************************************************)
(* _OPCode, _OP_CODE_MAP, _INSTRUCTION, _SUBS                              *)
(***************************************************************************)
_OPCode ==
    [ADD |-> 0, SUB |-> 1, MUL |-> 2, DIV |-> 3, POW |-> 4, SIN |-> 5, COS |-> 6,
     TAN |-> 7, ASIN |-> 8, ACOS |-> 9, EXP |-> 10, LOG |-> 11, SIGN |-> 12,
     GRAD |-> 13, CONJ |-> 14, SUBSTITUTE |-> 15, ABS |-> 16, ATAN |-> 17,
     RSUB |-> 18, RDIV |-> 19, RPOW |-> 20]

_OP_CODE_MAP ==
    <<"__add__", "__sub__", "__mul__", "__truediv__", "__pow__", "sin", "cos", "tan",
      "arcsin", "arccos", "exp", "log", "sign", "gradient", "conjugate", "subs",
      "abs", "arctan", "__rsub__", "__rtruediv__", "__rpow__">>

\* _OP_CODE_MAP[op_code] (the tuple is indexed from 0)
op_code_to_method(op_code) == _OP_CODE_MAP[op_code + 1]

\* Python values held by a record: None, a number (Num(n)), a reference
None == <<"None">>

Ref(i) == <<"ref", i>>

IsRef(v) == v[1] = "ref"

\* a float that is inf or nan, or any operand that is not a number at all
NonFinite == <<"nonfinite">>

\* a value that is not a numbers.Number
NonNumber == <<"object">>

_INSTRUCTION(op, lhs, rhs) ==
    [kind |-> "INSTRUCTION", op |-> op, lhs |-> lhs, rhs |-> rhs, binds |-> <<>>]

_SUBS(binds) ==
    [kind |-> "SUBS", op |-> _OPCode.SUBSTITUTE, lhs |-> None, rhs |-> None,
     binds |-> binds]

(***************************************************************************)
(* State.                                                                  *)
(***************************************************************************)
VARIABLES
    heap,   \* the ParameterExpression objects, by address
    lists,  \* the list objects (replay logs), by address
    last    \* the last call: method, outcome and what it returned

vars == <<heap, lists, last>>

Refs == DOMAIN heap

\* an assignment of the list instead of a copy: both names refer to one list
ListCopyAlias(ls, l) == [lists |-> ls, ref |-> l]

\* list.copy(): a new list object with the same items
ListCopy(ls, l) == [lists |-> Append(ls, ls[l]), ref |-> Len(ls) + 1]

\* an append that is left out
ListAppendNop(ls, l, x) == ls

\* list.append(x): in place
ListAppend(ls, l, x) == [ls EXCEPT ![l] = Append(@, x)]

\* {p.name: p for p in symbols}
RECURSIVE NameMapOf(_)
NameMapOf(symbols) ==
    IF symbols = <<>> THEN <<>>
    ELSE DictUpdate(<<<<ParamName(symbols[1][1]), symbols[1][1]>>>>,
                    NameMapOf(Tail(symbols)))

\* ParameterExpression.__init__ with a SymbolExpr: the slots of the new object.
\* _name_map is filled by the first read of _names from _parameter_symbols,
\* which never changes afterwards; the model fills it at construction.
ParameterExpression(symbol_map, expr, qpy_replay) ==
    [parameter_symbols |-> symbol_map,
     symbol_expr |-> expr,
     name_map |-> NameMapOf(symbol_map),
     standalone_param |-> FALSE,
     qpy_replay |-> qpy_replay]

\* Parameter(name): its own symbol, standalone, an empty log of its own
Parameter(p, qpy_replay) ==
    [parameter_symbols |-> << <<p, Symbol(ParamName(p))>> >>,
     symbol_expr |-> Symbol(ParamName(p)),
     name_map |-> << <<ParamName(p), p>> >>,
     standalone_param |-> TRUE,
     qpy_replay |-> qpy_replay]

\* ParameterExpression.parameters
parameters(self) == DictKeys(heap[self].parameter_symbols)

\* ParameterExpression._names
_names(self) == heap[self].name_map

(***************************************************************************)
(* What a call does: how it ended, what it returned, the heap and the list *)
(* store it leaves, and how many native-evaluator calls it made.           *)
(***************************************************************************)
Raise(error, native) ==
    [outcome |-> error, result |-> None, heap |-> heap, lists |-> lists,
     native |-> native]

Return(value, ls, native) ==
    [outcome |-> "ok", result |-> value, heap |-> heap, lists |-> ls,
     native |-> native]

\* return ParameterExpression(...): the new object gets the next address
ReturnNew(obj, ls, native) ==
    [outcome |-> "ok", result |-> Ref(Len(heap) + 1), heap |-> Append(heap, obj),
     lists |-> ls, native |-> native]

(***************************************************************************)
(* The methods of ParameterExpression.  self is the receiver's address.    *)
(* Errors are named after their kind: UnknownParameter, NonNumeric and     *)
(* NameConflict are the three CircuitErrors, ZeroDivision is               *)
(* ZeroDivisionError, NotNumeric is TypeError; NotImplemented is returned. *)
(***************************************************************************)
RECURSIVE _conflicting_names(_, _, _)
\* the loop of _raise_if_parameter_names_conflict over inbound_names.items()
_conflicting_names(self, inbound_names, outbound_names) ==
    IF inbound_names = <<>> THEN <<>>
    ELSE LET name == inbound_names[1][1]
             param == inbound_names[1][2]
             rest == _conflicting_names(self, Tail(inbound_names), outbound_names)
         IN  IF /\ DictHas(_names(self), name)
                /\ ~DictHas(outbound_names, name)
                /\ param # DictGet(_names(self), name)
             THEN <<name>> \o rest
             ELSE rest

\* {p.name: p for p in outbound_parameters}, outbound_parameters a sequence of keys
RECURSIVE _outbound_names(_)
_outbound_names(outbound_parameters) ==
    IF outbound_parameters = <<>> THEN <<>>
    ELSE DictUpdate(<<<<ParamName(outbound_parameters[1]), outbound_parameters[1]>>>>,
                    _outbound_names(Tail(outbound_parameters)))

\* TRUE when _raise_if_parameter_names_conflict raises
_raise_if_parameter_names_conflict(self, inbound_parameters, outbound_parameters) ==
    _conflicting_names(self, inbound_parameters,
                       _outbound_names(outbound_parameters)) # <<>>

\* a check that raises only when no key at all is a parameter of self
_raise_if_all_unknown_parameters(self, keys) ==
    keys # {} /\ (keys \cap parameters(self)) = {}

\* TRUE when _raise_if_passed_unknown_parameters raises
_raise_if_passed_unknown_parameters(self, keys) ==
    (keys \ parameters(self)) # {}

\* TRUE when _raise_if_passed_nan raises
_raise_if_passed_nan(parameter_values) ==
    \E i \in DOMAIN parameter_values : ~IsNum(parameter_values[i][2])

\* the keys of a dict, in order
KeySeq(d) == [i \in DOMAIN d |-> d[i][1]]

\* an operand that is self whatever _standalone_param says
_self_operand_always(self) == Ref(self)

\* the operand an _INSTRUCTION stores for self
_self_operand(self) == IF heap[self].standalone_param THEN Ref(self) ELSE None

conjugate(self) ==
    LET new_op == _INSTRUCTION(_OPCode.CONJ, _self_operand(self), None)
        new_replay == ListCopy(lists, heap[self].qpy_replay)
        appended == ListAppend(new_replay.lists, new_replay.ref, new_op)
    IN  ReturnNew(ParameterExpression(heap[self].parameter_symbols,
                                      ExprUnary("conjugate", heap[self].symbol_expr),
                                      new_replay.ref),
                  appended, 1)

RECURSIVE _bind_symbol_values(_, _)
\* the loop of bind over parameter_values.items(): {str(symbol): value}
_bind_symbol_values(self, parameter_values) ==
    IF parameter_values = <<>> THEN <<>>
    ELSE LET n == Len(parameter_values)
             parameter == parameter_values[n][1]
             value == parameter_values[n][2]
             before == _bind_symbol_values(self, SubSeq(parameter_values, 1, n - 1))
         IN  IF DictHas(heap[self].parameter_symbols, parameter)
             THEN DictSet(before,
                          DictGet(heap[self].parameter_symbols, parameter)[2], value)
             ELSE before

\* the free parameters counted from the symbols left in the bound value, which
\* the comment in bind warns against
_bind_free_symbols(self, parameter_values) ==
    LET bound == ExprSubs(heap[self].symbol_expr,
                          _bind_symbol_values(self, parameter_values))
    IN  { k \in parameters(self) \ DictKeys(parameter_values) :
            DictGet(heap[self].parameter_symbols, k)[2] \in ExprSymbols(bound) }

\* free_parameters = self.parameters - parameter_values.keys()
_bind_free_parameters(self, parameter_values) ==
    parameters(self) \ DictKeys(parameter_values)

\* a bind without the test for a division by zero
_bind_never_divides_by_zero(bound_symbol_expr) == FALSE

\* the test of bind for a division by zero: is_infinite, or == float("inf")
_bind_divides_by_zero(bound_symbol_expr) == ExprIsInfinite(bound_symbol_expr)

bind(self, parameter_values, allow_unknown_parameters) ==
    IF /\ ~allow_unknown_parameters
       /\ _raise_if_passed_unknown_parameters(self, DictKeys(parameter_values))
    THEN Raise("UnknownParameter", 0)
    ELSE IF _raise_if_passed_nan(parameter_values)
    THEN Raise("NonNumeric", 0)
    ELSE
        LET new_op == _SUBS(parameter_values)
            symbol_values == _bind_symbol_values(self, parameter_values)
            bound_symbol_expr == ExprSubs(heap[self].symbol_expr, symbol_values)
            free_parameters == _bind_free_parameters(self, parameter_values)
            free_parameter_symbols ==
                DictFilter(heap[self].parameter_symbols, free_parameters)
        IN  IF _bind_divides_by_zero(bound_symbol_expr)
            THEN Raise("ZeroDivision", 1)
            ELSE LET new_replay == ListCopy(lists, heap[self].qpy_replay)
                     appended == ListAppend(new_replay.lists, new_replay.ref, new_op)
                 IN  ReturnNew(ParameterExpression(free_parameter_symbols,
                                                   bound_symbol_expr, new_replay.ref),
                               appended, 1)

RECURSIVE _subs_inbound_names(_)
\* {p.name: p for replacement_expr in parameter_map.values()
\*            for p in replacement_expr.parameters}
_subs_inbound_names(parameter_map) ==
    IF parameter_map = <<>> THEN <<>>
    ELSE DictUpdate(_names(parameter_map[1][2][2]),
                    _subs_inbound_names(Tail(parameter_map)))

\* a subs that does not enter the parameters of a replacement in the symbols
_no_fresh_symbols(symbols) == <<>>

RECURSIVE _fresh_symbols(_)
\* {p: Symbol(p.name) for p in symbols}
_fresh_symbols(symbols) ==
    IF symbols = <<>> THEN <<>>
    ELSE <<<<symbols[1][1], Symbol(ParamName(symbols[1][1]))>>>>
         \o _fresh_symbols(Tail(symbols))

RECURSIVE _subs_loop(_, _, _)
\* the loop of subs over parameter_map.items(): grows new_parameter_symbols and
\* symbol_map, which `acc` holds together
_subs_loop(self, parameter_map, acc) ==
    IF parameter_map = <<>> THEN acc
    ELSE LET old_param == parameter_map[1][1]
             new_param == parameter_map[1][2][2]
         IN  IF DictHas(heap[self].parameter_symbols, old_param)
             THEN _subs_loop(self, Tail(parameter_map),
                    [symbol_map |->
                        DictSet(acc.symbol_map,
                                DictGet(heap[self].parameter_symbols, old_param)[2],
                                heap[new_param].symbol_expr),
                     new_parameter_symbols |->
                        DictUpdate(acc.new_parameter_symbols,
                                   _fresh_symbols(heap[new_param].parameter_symbols))])
             ELSE _subs_loop(self, Tail(parameter_map), acc)

subs(self, parameter_map, allow_unknown_parameters) ==
    IF /\ ~allow_unknown_parameters
       /\ _raise_if_passed_unknown_parameters(self, DictKeys(parameter_map))
    THEN Raise("UnknownParameter", 0)
    ELSE IF _raise_if_parameter_names_conflict(self, _subs_inbound_names(parameter_map),
                                               KeySeq(parameter_map))
    THEN Raise("NameConflict", 0)
    ELSE
        LET new_op == _SUBS(parameter_map)
            kept == DictFilter(heap[self].parameter_symbols,
                               parameters(self) \ DictKeys(parameter_map))
            done == _subs_loop(self, parameter_map,
                               [symbol_map |-> <<>>, new_parameter_symbols |-> kept])
            substituted_symbol_expr == ExprSubs(heap[self].symbol_expr, done.symbol_map)
            new_replay == ListCopy(lists, heap[self].qpy_replay)
            appended == ListAppend(new_replay.lists, new_replay.ref, new_op)
        IN  ReturnNew(ParameterExpression(done.new_parameter_symbols,
                                          substituted_symbol_expr, new_replay.ref),
                      appended, 1)

\* assign: subs when the value is a ParameterExpression, bind otherwise
assign(self, parameter, value) ==
    IF IsRef(value)
    THEN subs(self, << <<parameter, value>> >>, FALSE)
    ELSE bind(self, << <<parameter, value>> >>, FALSE)

(***************************************************************************)
(* Operator dispatch.                                                      *)
(***************************************************************************)
\* `other` is Ref(i), Num(n) or NonFinite; `operation` names the native operation
_apply_operation(self, operation, other, reflected, op_code) ==
    IF IsRef(other) /\ _raise_if_parameter_names_conflict(self, _names(other[2]), <<>>)
    THEN Raise("NameConflict", 0)
    ELSE IF ~IsRef(other) /\ ~IsNum(other)
    THEN Return(<<"NotImplemented">>, lists, 0)
    ELSE
        LET self_expr == heap[self].symbol_expr
            parameter_symbols ==
                IF IsRef(other)
                THEN DictUpdate(heap[self].parameter_symbols,
                                heap[other[2]].parameter_symbols)
                ELSE heap[self].parameter_symbols
            other_expr == IF IsRef(other) THEN heap[other[2]].symbol_expr ELSE other
            expr == IF reflected
                    THEN ExprBinary(operation, other_expr, self_expr)
                    ELSE ExprBinary(operation, self_expr, other_expr)
            new_op ==
                IF reflected
                THEN IF op_code \in {_OPCode.RSUB, _OPCode.RDIV, _OPCode.RPOW}
                     THEN _INSTRUCTION(op_code, _self_operand(self), other)
                     ELSE _INSTRUCTION(op_code, other, _self_operand(self))
                ELSE _INSTRUCTION(op_code, _self_operand(self), other)
            new_replay == ListCopy(lists, heap[self].qpy_replay)
            appended == ListAppend(new_replay.lists, new_replay.ref, new_op)
            out_expr == ParameterExpression(parameter_symbols, expr, new_replay.ref)
            name_map == IF IsRef(other)
                        THEN DictUpdate(_names(self), _names(other[2]))
                        ELSE _names(self)
        IN  ReturnNew([out_expr EXCEPT !.name_map = name_map], appended, 1)

\* other == 0, for a number or a ParameterExpression (__eq__ with a number)
_equals_zero(other) ==
    IF IsRef(other) THEN heap[other[2]].symbol_expr = Num(0) ELSE other = Num(0)

\* binary operators whose reflected forms share the op code of the plain form
BinaryMethodsSharedCodes ==
    [__add__      |-> [operation |-> "add", reflected |-> FALSE, op_code |-> _OPCode.ADD],
     __radd__     |-> [operation |-> "add", reflected |-> TRUE,  op_code |-> _OPCode.ADD],
     __sub__      |-> [operation |-> "sub", reflected |-> FALSE, op_code |-> _OPCode.SUB],
     __rsub__     |-> [operation |-> "sub", reflected |-> TRUE,  op_code |-> _OPCode.SUB],
     __mul__      |-> [operation |-> "mul", reflected |-> FALSE, op_code |-> _OPCode.MUL],
     __rmul__     |-> [operation |-> "mul", reflected |-> TRUE,  op_code |-> _OPCode.MUL],
     __truediv__  |-> [operation |-> "div", reflected |-> FALSE, op_code |-> _OPCode.DIV],
     __rtruediv__ |-> [operation |-> "div", reflected |-> TRUE,  op_code |-> _OPCode.DIV],
     __pow__      |-> [operation |-> "pow", reflected |-> FALSE, op_code |-> _OPCode.POW],
     __rpow__     |-> [operation |-> "pow", reflected |-> TRUE,  op_code |-> _OPCode.POW]]

\* the binary operators: the native operation, reflected, the op code
BinaryMethods ==
    [__add__      |-> [operation |-> "add", reflected |-> FALSE, op_code |-> _OPCode.ADD],
     __radd__     |-> [operation |-> "add", reflected |-> TRUE,  op_code |-> _OPCode.ADD],
     __sub__      |-> [operation |-> "sub", reflected |-> FALSE, op_code |-> _OPCode.SUB],
     __rsub__     |-> [operation |-> "sub", reflected |-> TRUE,  op_code |-> _OPCode.RSUB],
     __mul__      |-> [operation |-> "mul", reflected |-> FALSE, op_code |-> _OPCode.MUL],
     __rmul__     |-> [operation |-> "mul", reflected |-> TRUE,  op_code |-> _OPCode.MUL],
     __truediv__  |-> [operation |-> "div", reflected |-> FALSE, op_code |-> _OPCode.DIV],
     __rtruediv__ |-> [operation |-> "div", reflected |-> TRUE,  op_code |-> _OPCode.RDIV],
     __pow__      |-> [operation |-> "pow", reflected |-> FALSE, op_code |-> _OPCode.POW],
     __rpow__     |-> [operation |-> "pow", reflected |-> TRUE,  op_code |-> _OPCode.RPOW]]

\* self.<method>(other) for a binary operator
binary(self, method, other) ==
    IF method = "__truediv__" /\ _equals_zero(other)
    THEN Raise("ZeroDivision", 0)
    ELSE LET m == BinaryMethods[method]
         IN  _apply_operation(self, m.operation, other, m.reflected, m.op_code)

\* the unary functions: the native function and the op code
UnaryMethods ==
    [sin    |-> [ufunc |-> "sin",  op_code |-> _OPCode.SIN],
     cos    |-> [ufunc |-> "cos",  op_code |-> _OPCode.COS],
     tan    |-> [ufunc |-> "tan",  op_code |-> _OPCode.TAN],
     arcsin |-> [ufunc |-> "asin", op_code |-> _OPCode.ASIN],
     arccos |-> [ufunc |-> "acos", op_code |-> _OPCode.ACOS],
     arctan |-> [ufunc |-> "atan", op_code |-> _OPCode.ATAN],
     exp    |-> [ufunc |-> "exp",  op_code |-> _OPCode.EXP],
     log    |-> [ufunc |-> "log",  op_code |-> _OPCode.LOG],
     sign   |-> [ufunc |-> "sign", op_code |-> _OPCode.SIGN],
     abs    |-> [ufunc |-> "abs",  op_code |-> _OPCode.ABS]]

_call(self, ufunc, op_code) ==
    LET new_op == _INSTRUCTION(op_code, _self_operand(self), None)
        new_replay == ListCopy(lists, heap[self].qpy_replay)
        appended == ListAppend(new_replay.lists, new_replay.ref, new_op)
    IN  ReturnNew(ParameterExpression(heap[self].parameter_symbols,
                                      ExprUnary(ufunc, heap[self].symbol_expr),
                                      new_replay.ref),
                  appended, 1)

\* self.<method>() for a unary function
unary(self, method) ==
    _call(self, UnaryMethods[method].ufunc, UnaryMethods[method].op_code)

\* the Python int 0
Int0 == <<"int", 0>>

\* the Python float 0.0 that gradient returns
Float0 == <<"float", 0>>

\* the dict of the parameters whose symbol still occurs in the derivative
_gradient_symbols(self, expr_grad) ==
    DictFilter(heap[self].parameter_symbols,
               { heap[self].parameter_symbols[i][1] :
                   i \in { j \in DOMAIN heap[self].parameter_symbols :
                             heap[self].parameter_symbols[j][2][2]
                                 \in ExprSymbols(expr_grad) } })

gradient(self, param) ==
    IF ~DictHas(heap[self].parameter_symbols, param)
    THEN Return(Float0, lists, 0)
    ELSE
        LET new_op == _INSTRUCTION(_OPCode.GRAD, _self_operand(self), Ref(param))
            qpy_replay == ListCopy(lists, heap[self].qpy_replay)
            appended == ListAppend(qpy_replay.lists, qpy_replay.ref, new_op)
            key == DictGet(heap[self].parameter_symbols, param)
            expr_grad == ExprDerivative(heap[self].symbol_expr, key[2])
            parameter_symbols == _gradient_symbols(self, expr_grad)
        IN  IF Len(parameter_symbols) > 0
            THEN ReturnNew(ParameterExpression(parameter_symbols, expr_grad,
                                               qpy_replay.ref),
                           appended, 1)
            \* the new list is dropped with the frame: nothing refers to it
            ELSE Return(ExprValue(expr_grad), SubSeq(appended, 1, Len(lists)), 1)

\* a numeric that asks the value, not the symbols, whether a parameter is left
numeric_of_value(self) ==
    IF ExprSymbols(heap[self].symbol_expr) # {}
    THEN Raise("NotNumeric", 0)
    ELSE Return(ExprValue(heap[self].symbol_expr), lists, 1)

\* numeric(): TypeError while _parameter_symbols is not empty
numeric(self) ==
    IF heap[self].parameter_symbols # <<>>
    THEN Raise("NotNumeric", 0)
    ELSE IF ExprValue(heap[self].symbol_expr) = <<"RuntimeError">>
    THEN Raise("RuntimeError", 1)
    ELSE Return(ExprValue(heap[self].symbol_expr), lists, 1)

\* complex(self): both TypeErrors of the handler are NotNumeric, the one that
\* names the unbound parameters and "could not cast expression to complex"
__complex__(self) ==
    LET value == ExprValue(heap[self].symbol_expr)
    IN  IF value = <<"RuntimeError">>
        THEN Raise("NotNumeric", 1)
        ELSE Return(<<"complex", value[2]>>, lists, 1)

\* float(self): a value that cannot be evaluated is retried through complex(self)
\* when no parameter is left; the values of this algebra have no imaginary part
__float__(self) ==
    LET value == ExprValue(heap[self].symbol_expr)
    IN  IF value = <<"RuntimeError">>
        THEN IF parameters(self) # {}
             THEN Raise("NotNumeric", 1)
             ELSE LET cval == __complex__(self)
                  IN  IF cval.outcome # "ok" THEN cval
                      ELSE Return(<<"float", cval.result[2]>>, lists, 1)
        ELSE Return(<<"float", value[2]>>, lists, 1)

\* int(self)
__int__(self) ==
    LET value == ExprValue(heap[self].symbol_expr)
    IN  IF value = <<"RuntimeError">>
        THEN Raise("NotNumeric", 1)
        ELSE Return(<<"int", value[2]>>, lists, 1)

\* int(self), float(self) or complex(self)
cast(self, type) ==
    CASE type = "int" -> __int__(self)
      [] type = "float" -> __float__(self)
      [] type = "complex" -> __complex__(self)

(***************************************************************************)
(* sympify: the replay of _qpy_replay.  The symbolic library it replays    *)
(* against is modelled by the same term algebra as the native evaluator.   *)
(* Error stands for the exception an operation on an absent output raises. *)
(***************************************************************************)
Error == <<"error">>

IsTerm(v) == v # None /\ v # Error

\* the replay of one binary _INSTRUCTION on resolved operands
_replay_binary(op, lhs, rhs) ==
    IF lhs = Error \/ rhs = Error \/ lhs = None \/ rhs = None THEN Error
    ELSE IF op = _OPCode.GRAD THEN ExprDerivative(lhs, rhs[2])
    \* a number on the left of ADD or MUL goes through rhs.__radd__(lhs) or
    \* rhs.__rmul__(lhs): lhs + rhs and lhs * rhs again
    ELSE LET method_str == op_code_to_method(op)
         IN  CASE method_str = "__add__" -> ExprAdd(lhs, rhs)
               [] method_str = "__sub__" -> ExprSub(lhs, rhs)
               [] method_str = "__mul__" -> ExprMul(lhs, rhs)
               [] method_str = "__truediv__" -> ExprDiv(lhs, rhs)
               [] method_str = "__pow__" -> ExprPow(lhs, rhs)
               [] method_str = "__rsub__" -> ExprSub(rhs, lhs)
               [] method_str = "__rtruediv__" -> ExprDiv(rhs, lhs)
               [] method_str = "__rpow__" -> ExprPow(rhs, lhs)

\* the replay of one unary _INSTRUCTION
_replay_unary(op, lhs) ==
    IF lhs = Error \/ lhs = None THEN Error
    ELSE IF op = _OPCode.ACOS THEN ExprUnary("acos", lhs)
    ELSE IF op = _OPCode.ASIN THEN ExprUnary("asin", lhs)
    ELSE IF op = _OPCode.ATAN THEN ExprUnary("atan", lhs)
    ELSE IF op = _OPCode.ABS THEN ExprUnary("abs", lhs)
    ELSE ExprUnary(op_code_to_method(op), lhs)

RECURSIVE sympify(_)
RECURSIVE _replay(_, _)
RECURSIVE _sympy_binds(_)

\* {old.sympify(): new.sympify() or new}, keyed by the symbol's name;
\* ok is FALSE when the export of a replacement raises
_sympy_binds(binds) ==
    IF binds = <<>> THEN [ok |-> TRUE, binds |-> <<>>]
    ELSE LET n == Len(binds)
             before == _sympy_binds(SubSeq(binds, 1, n - 1))
             old == sympify(binds[n][1])
             new == IF IsRef(binds[n][2]) THEN sympify(binds[n][2][2]) ELSE binds[n][2]
         IN  IF ~before.ok \/ ~IsTerm(new) THEN [ok |-> FALSE, binds |-> <<>>]
             ELSE [ok |-> TRUE, binds |-> DictSet(before.binds, old[2], new)]

\* the loop of sympify over the instructions left in `log`
_replay(log, output) ==
    IF output = Error \/ log = <<>> THEN output
    ELSE LET inst == log[1]
         IN  IF inst.kind = "SUBS"
             THEN LET sympy_binds == _sympy_binds(inst.binds)
                  IN  IF output = None \/ ~sympy_binds.ok
                      THEN Error
                      ELSE _replay(Tail(log), ExprSubs(output, sympy_binds.binds))
             ELSE LET lhs == IF IsRef(inst.lhs) THEN sympify(inst.lhs[2])
                             ELSE IF inst.lhs = None THEN output
                             ELSE inst.lhs
                      rhs == IF inst.rhs = None THEN output
                             ELSE IF IsRef(inst.rhs) THEN sympify(inst.rhs[2])
                             ELSE inst.rhs
                  IN  IF inst.op \in {0, 1, 2, 3, 4, 13, 15, 18, 19, 20}
                      THEN _replay(Tail(log), _replay_binary(inst.op, lhs, rhs))
                      ELSE _replay(Tail(log), _replay_unary(inst.op, lhs))

\* Parameter.sympify() is the symbol of its name
sympify(self) ==
    IF heap[self].standalone_param
    THEN Symbol(ParamName(self))
    ELSE _replay(lists[heap[self].qpy_replay], None)

(***************************************************************************)
(* The calls the model makes.  The second Parameter named "x" belongs to   *)
(* another owner: it is passed as operand, key and replacement, and calls  *)
(* are made on every other object.                                         *)
(***************************************************************************)
Receivers == Refs \ {2}

\* the plain numbers passed as operands and bound as values
Zero == Num(0)

Two == Num(2)

Others == { Ref(i) : i \in Refs }

\* <<method, other>>: every reflected operator with a number, every plain
\* operator with a number or an expression, a division by 0, a product with 0,
\* a product with the Parameter y, an operand that is not finite
BinaryCalls ==
    ({"__radd__", "__rsub__", "__rmul__", "__rtruediv__", "__rpow__"} \X {Two})
    \cup ({"__sub__", "__pow__"} \X {Two})
    \cup ({"__mul__", "__truediv__"} \X {Zero})
    \cup ({"__add__", "__radd__"} \X {NonFinite})
    \cup ({"__add__", "__truediv__"} \X Others)
    \cup ({"__mul__"} \X {Ref(3)})

UnaryCalls == {"sin", "arccos"}

\* dicts of one entry, and of two entries in the order of the keys
Maps1(values) == { << <<k, v>> >> : k \in Parameters, v \in values }

Maps2(v1, v2) ==
    { << <<k[1], v1>>, <<k[2], v2>> >> :
        k \in { kk \in Parameters \X Parameters : kk[1] < kk[2] } }

\* <<parameter_values, allow_unknown_parameters>>
BindCalls ==
    (Maps1({Zero, Two, NonNumber}) \X {FALSE})
    \cup (Maps1({Two}) \X {TRUE})
    \cup (Maps2(Two, Zero) \X BOOLEAN)

\* two Parameters replaced by each other
Swaps ==
    { << <<k[1], Ref(k[2])>>, <<k[2], Ref(k[1])>> >> :
        k \in { kk \in Parameters \X Parameters : kk[1] < kk[2] } }

\* <<parameter_map, allow_unknown_parameters>>
SubsCalls ==
    (Maps1(Others) \X {FALSE}) \cup (Swaps \X BOOLEAN)

\* <<parameter, value>>
AssignCalls == Parameters \X {Two, Ref(3)}

Init ==
    /\ heap = [p \in Parameters |-> Parameter(p, p)]
    /\ lists = [p \in Parameters |-> <<>>]
    /\ last = [op |-> "Parameter", outcome |-> "ok", result |-> None]

\* a call takes effect; one that creates an object needs room for it
Call(op, c) ==
    /\ Len(c.heap) > Len(heap) => Len(heap) < Len(ParamNames) + MaxOps
    /\ heap' = c.heap
    /\ lists' = c.lists
    /\ last' = [op |-> op, outcome |-> c.outcome, result |-> c.result]

Binary ==
    \E self \in Receivers, call \in BinaryCalls :
        Call("binary", binary(self, call[1], call[2]))

Unary ==
    \E self \in Receivers, method \in UnaryCalls : Call("unary", unary(self, method))

Conjugate == \E self \in Receivers : Call("conjugate", conjugate(self))

Bind ==
    \E self \in Receivers, call \in BindCalls : Call("bind", bind(self, call[1], call[2]))

Subs ==
    \E self \in Receivers, call \in SubsCalls : Call("subs", subs(self, call[1], call[2]))

Assign ==
    \E self \in Receivers, call \in AssignCalls :
        Call(IF IsRef(call[2]) THEN "subs" ELSE "bind", assign(self, call[1], call[2]))

Gradient ==
    \E self \in Receivers, param \in Parameters : Call("gradient", gradient(self, param))

Numeric == \E self \in Receivers : Call("numeric", numeric(self))

CastCalls == {"int", "float", "complex"}

Cast == \E self \in Receivers, type \in CastCalls : Call("cast", cast(self, type))

Next ==
    \/ Binary
    \/ Unary
    \/ Conjugate
    \/ Bind
    \/ Subs
    \/ Assign
    \/ Gradient
    \/ Numeric
    \/ Cast

Spec == Init /\ [][Next]_vars

(***************************************************************************)
(* Properties.  A property of a method is stated of every call of it that  *)
(* can be made in a reachable state: `c` is what the call does there.      *)
(***************************************************************************)
\* the replay log of an object in the heap and list store a call leaves
LogAfter(c, i) == c.lists[c.heap[i].qpy_replay]

\* the replay log of an object now
Log(i) == lists[heap[i].qpy_replay]

\* C1: every call, whether it succeeds or fails, leaves every object that
\* exists with the symbols, the native value and the replay log it had.
C1_ExistingValuesUnchanged ==
    [][\A i \in DOMAIN heap :
          /\ i \in DOMAIN heap'
          /\ heap'[i].parameter_symbols = heap[i].parameter_symbols
          /\ heap'[i].symbol_expr = heap[i].symbol_expr
          /\ lists'[heap'[i].qpy_replay] = Log(i)]_vars

\* two objects were created by operations, and then a call failed
C1_Witness ==
    /\ Len(heap) = Len(ParamNames) + 2
    /\ last.outcome \in {"UnknownParameter", "NonNumeric", "NameConflict", "ZeroDivision"}

\* a successful call on self that returned an object left that object with
\* self's log followed by exactly one record of the given kind, and self's log
\* as it was
AppendsOne(self, c, kind) ==
    (c.outcome = "ok" /\ IsRef(c.result)) =>
        LET new == LogAfter(c, c.result[2])
        IN  /\ Len(new) = Len(Log(self)) + 1
            /\ SubSeq(new, 1, Len(Log(self))) = Log(self)
            /\ new[Len(new)].kind = kind
            /\ LogAfter(c, self) = Log(self)

\* C2: a successful bind, subs, binary operator, unary function, conjugate or
\* gradient that returns an object gives it the receiver's replay log followed
\* by exactly one new record: a _SUBS for bind and subs, an _INSTRUCTION
\* otherwise.
C2_LogGrowsByOneRecord ==
    \A self \in Receivers :
        /\ \A call \in BinaryCalls :
              AppendsOne(self, binary(self, call[1], call[2]), "INSTRUCTION")
        /\ \A method \in UnaryCalls : AppendsOne(self, unary(self, method), "INSTRUCTION")
        /\ AppendsOne(self, conjugate(self), "INSTRUCTION")
        /\ \A param \in Parameters : AppendsOne(self, gradient(self, param), "INSTRUCTION")
        /\ \A call \in BindCalls : AppendsOne(self, bind(self, call[1], call[2]), "SUBS")
        /\ \A call \in SubsCalls : AppendsOne(self, subs(self, call[1], call[2]), "SUBS")

\* a bind returned an object at the end of a chain of two operations
C2_Witness ==
    /\ last.op = "bind"
    /\ last.outcome = "ok"
    /\ IsRef(last.result)
    /\ Len(Log(last.result[2])) = 2
    /\ Log(last.result[2])[1].kind = "INSTRUCTION"
    /\ Log(last.result[2])[2].kind = "SUBS"

\* C3: replaying the replay log of an object built by operations, from an
\* absent output, reconstructs a value equal to the object's own value.
C3_ReplayReconstructsValue ==
    \A i \in Refs : ~heap[i].standalone_param => sympify(i) = heap[i].symbol_expr

\* C4: a successful bind on an expression with free parameters S returns an
\* object whose free parameters are exactly S minus the keys bound, each with
\* the symbol it had, whatever the evaluator eliminated from the value.
C4_BindKeepsUnboundParameters ==
    \A self \in Receivers, call \in BindCalls :
        LET c == bind(self, call[1], call[2])
        IN  (c.outcome = "ok") =>
                LET new == c.heap[c.result[2]].parameter_symbols
                IN  /\ DictKeys(new) = parameters(self) \ DictKeys(call[1])
                    /\ \A k \in DictKeys(new) :
                          DictGet(new, k) = DictGet(heap[self].parameter_symbols, k)

\* a bind returned an object that keeps a parameter the evaluator eliminated
\* from the value
C4_Witness ==
    /\ last.op = "bind"
    /\ last.outcome = "ok"
    /\ \E k \in DictKeys(heap[last.result[2]].parameter_symbols) :
          DictGet(heap[last.result[2]].parameter_symbols, k)[2]
              \notin ExprSymbols(heap[last.result[2]].symbol_expr)

\* the call failed on the unknown-parameter check exactly when a key is not a
\* parameter of self and unknown parameters are not allowed, and then before
\* any evaluator call and creating nothing
UnknownChecked(self, keys, allow, c) ==
    /\ c.outcome = "UnknownParameter" <=> (~allow /\ \E k \in keys : k \notin parameters(self))
    /\ c.outcome = "UnknownParameter" =>
          /\ c.native = 0
          /\ c.heap = heap
          /\ c.lists = lists
          /\ c.result = None

\* C5: bind and subs fail with an unknown-parameter error whenever a key of
\* the mapping is not a free parameter of the receiver and allow_unknown is
\* false, never for that reason when it is true, before any evaluator call and
\* producing no object.
C5_UnknownParameterRejected ==
    \A self \in Receivers :
        /\ \A call \in BindCalls :
              UnknownChecked(self, DictKeys(call[1]), call[2], bind(self, call[1], call[2]))
        /\ \A call \in SubsCalls :
              UnknownChecked(self, DictKeys(call[1]), call[2], subs(self, call[1], call[2]))

\* a subs on a derived expression failed on an unknown parameter
C5_Witness ==
    /\ last.op = "subs"
    /\ last.outcome = "UnknownParameter"
    /\ Len(heap) > Len(ParamNames)

\* some replacement expression that the map substitutes into self has a free
\* parameter with the name of, but other than, a parameter of self that is not
\* a key of the map
IntroducesNameConflict(self, parameter_map) ==
    \E i \in DOMAIN parameter_map :
        \E p \in parameters(parameter_map[i][2][2]), q \in parameters(self) :
            /\ parameter_map[i][1] \in parameters(self)
            /\ ParamName(p) = ParamName(q)
            /\ p # q
            /\ q \notin DictKeys(parameter_map)

\* C6: subs fails with a name-conflict error whenever a replacement expression
\* has a free parameter that shares its name with, but is not, a parameter of
\* the receiver that is not a key being replaced (the unknown-parameter check
\* having passed).
C6_SubsRejectsNameConflict ==
    \A self \in Receivers, call \in SubsCalls :
        LET c == subs(self, call[1], call[2])
        IN  (c.outcome # "UnknownParameter" /\ IntroducesNameConflict(self, call[1]))
                => c.outcome = "NameConflict"

\* the value the evaluator produces for a binding of self
BoundValue(self, parameter_values) ==
    ExprSubs(heap[self].symbol_expr, _bind_symbol_values(self, parameter_values))

\* the symbol of a parameter of self
SymbolOf(self, parameter) == DictGet(heap[self].parameter_symbols, parameter)

\* self is a quotient whose denominator is the symbol of a parameter that the
\* binding sets to 0 (and to nothing else, should two keys have that symbol)
BindsDenominatorToZero(self, parameter_values) ==
    LET denominator == heap[self].symbol_expr[3]
        binds == { i \in DOMAIN parameter_values :
                     /\ parameter_values[i][1] \in parameters(self)
                     /\ SymbolOf(self, parameter_values[i][1]) = denominator }
    IN  /\ heap[self].symbol_expr[1] = "div"
        /\ denominator[1] = "sym"
        /\ binds # {}
        /\ \A i \in binds : parameter_values[i][2] = Num(0)

\* C7: a bind that reaches the evaluator fails with a division-by-zero error,
\* returning no object and creating none, whenever the value the evaluator
\* produces for the binding is infinite; in particular binding to 0 the
\* denominator of c/p or of p/q (p left unbound) fails so.
C7_BindFailsOnNonFiniteValue ==
    \A self \in Receivers, call \in BindCalls :
        LET c == bind(self, call[1], call[2])
        IN  /\ (c.native = 1 /\ ExprIsInfinite(BoundValue(self, call[1]))) =>
                  /\ c.outcome = "ZeroDivision"
                  /\ c.result = None
                  /\ c.heap = heap
                  /\ c.lists = lists
            /\ (c.native = 1 /\ BindsDenominatorToZero(self, call[1])) =>
                  c.outcome = "ZeroDivision"

\* binding only q to 0 in p/q, p left unbound, failed with a division by zero
C7_Witness ==
    /\ last.op = "bind"
    /\ last.outcome = "ZeroDivision"
    /\ Len(heap) = Len(ParamNames) + 1
    /\ heap[Len(heap)].symbol_expr = <<"div", Symbol("x"), Symbol("y")>>
    /\ bind(Len(heap), << <<3, Num(0)>> >>, FALSE).outcome = "ZeroDivision"

\* some name belongs to a parameter of self and to a different parameter of other
NamesClash(self, other) ==
    \E p \in parameters(self), q \in parameters(other) :
        ParamName(p) = ParamName(q) /\ p # q

\* the entries of a dict
DictItems(d) == { d[i] : i \in DOMAIN d }

\* C8: a binary operation on two expressions fails with a name-conflict error,
\* before the evaluator is called, if some name occurs in both operands with
\* different parameters; otherwise it succeeds and the symbols of the result
\* are exactly the union of the symbols of the operands (those of the receiver
\* when the other operand is a finite number).
C8_BinaryOperatorNameConflict ==
    \A self \in Receivers, method \in DOMAIN BinaryMethods, other \in Others \cup {Two} :
        LET m == BinaryMethods[method]
            c == _apply_operation(self, m.operation, other, m.reflected, m.op_code)
        IN  IF IsRef(other) /\ NamesClash(self, other[2])
            THEN c.outcome = "NameConflict" /\ c.native = 0
            ELSE /\ c.outcome = "ok"
                 /\ IsRef(c.result)
                 /\ DictItems(c.heap[c.result[2]].parameter_symbols)
                       = DictItems(heap[self].parameter_symbols)
                         \cup (IF IsRef(other)
                               THEN DictItems(heap[other[2]].parameter_symbols)
                               ELSE {})

\* C9: gradient with respect to a parameter that is not among the free
\* parameters of the expression returns exactly the float 0.0 without calling
\* the evaluator, creates no object and records nothing: the heap and every
\* replay log are as they were.
C9_GradientOfAbsentParameterIsZero ==
    \A self \in Refs, param \in Parameters :
        param \notin parameters(self) =>
            LET c == gradient(self, param)
            IN  /\ c.outcome = "ok"
                /\ c.result = <<"float", 0>>
                /\ c.native = 0
                /\ c.heap = heap
                /\ c.lists = lists

\* gradient of a derived expression by a parameter it does not contain
\* returned 0.0
C9_Witness ==
    /\ last.op = "gradient"
    /\ last.result = <<"float", 0>>
    /\ Len(heap) > Len(ParamNames)

\* C10: numeric fails with a type error exactly when the symbols of the
\* expression are not empty; a successful bind that covers every free
\* parameter returns an object with no symbols, and numeric on an object with
\* no symbols returns the scalar of its value.
C10_NumericFailsIffUnbound ==
    /\ \A self \in Refs :
          LET c == numeric(self)
          IN  /\ c.outcome = "NotNumeric" <=> heap[self].parameter_symbols # <<>>
              /\ heap[self].parameter_symbols = <<>> =>
                    /\ c.outcome = "ok"
                    /\ c.result = <<"value", heap[self].symbol_expr>>
                    /\ ExprSymbols(heap[self].symbol_expr) = {}
    /\ \A self \in Receivers, call \in BindCalls :
          LET c == bind(self, call[1], call[2])
          IN  (c.outcome = "ok" /\ parameters(self) \subseteq DictKeys(call[1])) =>
                  /\ c.heap[c.result[2]].parameter_symbols = <<>>
                  /\ ExprSymbols(c.heap[c.result[2]].symbol_expr) = {}

\* numeric returned the scalar of an object that a bind of every parameter made
C10_Witness ==
    /\ last.op = "numeric"
    /\ last.outcome = "ok"
    /\ last.result[1] = "value"
    /\ \E i \in Refs : heap[i].parameter_symbols = <<>> /\ Log(i) # <<>>

\* object r is what a bind on object j of some, but not all, of the parameters
\* of j returned
BoundStrictSubsetOf(r, j) ==
    /\ Len(Log(r)) = Len(Log(j)) + 1
    /\ SubSeq(Log(r), 1, Len(Log(j))) = Log(j)
    /\ LET new_op == Log(r)[Len(Log(r))]
       IN  /\ new_op.kind = "SUBS"
           /\ \A i \in DOMAIN new_op.binds : IsNum(new_op.binds[i][2])
           /\ DictKeys(new_op.binds) \cap parameters(j) # {}
           /\ parameters(r) = parameters(j) \ DictKeys(new_op.binds)
           /\ parameters(r) # {}
           /\ heap[r].symbol_expr = BoundValue(j, new_op.binds)

\* C11: for an object obtained by binding some but not all of the free
\* parameters of an expression (a parameter remains in its symbols), int,
\* float and complex all fail with a type error, also when the evaluator has
\* eliminated the remaining symbols from the value.
C11_CastOfPartlyBoundFails ==
    \A r \in Refs, j \in Refs :
        BoundStrictSubsetOf(r, j) =>
            \A type \in CastCalls : cast(r, type).outcome = "NotNumeric"

\* the names of the symbols in the symbols mapping of an object
SymbolNames(obj) ==
    { obj.parameter_symbols[i][2][2] : i \in DOMAIN obj.parameter_symbols }

\* the object a call returned, if it returned one, has every symbol of its
\* value in its symbols mapping
NewValueWithinSymbols(c) ==
    (c.outcome = "ok" /\ IsRef(c.result)) =>
        ExprSymbols(c.heap[c.result[2]].symbol_expr)
            \subseteq SymbolNames(c.heap[c.result[2]])

\* C12 as stated: the symbols mapping of every object holds exactly the
\* parameters whose symbol occurs in its value.
C12_SymbolsExactlyThoseOfValue ==
    \A i \in Refs : SymbolNames(heap[i]) = ExprSymbols(heap[i].symbol_expr)

\* C12, amended: every symbol that occurs in the value of an object is the
\* symbol of a parameter in its symbols mapping, for every object that exists
\* and every object a call returns; a parameter stays in the symbols mapping
\* when the evaluator eliminates its symbol from the value.
C12_ValueSymbolsWithinSymbols ==
    /\ \A i \in Refs : ExprSymbols(heap[i].symbol_expr) \subseteq SymbolNames(heap[i])
    /\ \A self \in Receivers :
          /\ \A call \in BinaryCalls :
                NewValueWithinSymbols(binary(self, call[1], call[2]))
          /\ \A method \in UnaryCalls : NewValueWithinSymbols(unary(self, method))
          /\ NewValueWithinSymbols(conjugate(self))
          /\ \A param \in Parameters : NewValueWithinSymbols(gradient(self, param))
          /\ \A call \in BindCalls : NewValueWithinSymbols(bind(self, call[1], call[2]))
          /\ \A call \in SubsCalls : NewValueWithinSymbols(subs(self, call[1], call[2]))

\* an object keeps in its symbols a parameter that the evaluator eliminated
\* from its value, next to one that still occurs in it
C12_Witness ==
    \E i \in Refs :
        /\ ExprSymbols(heap[i].symbol_expr) # {}
        /\ ExprSymbols(heap[i].symbol_expr) # SymbolNames(heap[i])
        /\ ExprSymbols(heap[i].symbol_expr) \subseteq SymbolNames(heap[i])

\* what is expected of each binary operator: the native operation, whether
\* the number comes first in it, the op code recorded, whether the number is
\* recorded as the left operand
Expected ==
    [__add__      |-> [fn |-> "add", first |-> FALSE, code |-> 0,  left |-> FALSE],
     __sub__      |-> [fn |-> "sub", first |-> FALSE, code |-> 1,  left |-> FALSE],
     __mul__      |-> [fn |-> "mul", first |-> FALSE, code |-> 2,  left |-> FALSE],
     __truediv__  |-> [fn |-> "div", first |-> FALSE, code |-> 3,  left |-> FALSE],
     __pow__      |-> [fn |-> "pow", first |-> FALSE, code |-> 4,  left |-> FALSE],
     __radd__     |-> [fn |-> "add", first |-> TRUE,  code |-> 0,  left |-> TRUE],
     __rmul__     |-> [fn |-> "mul", first |-> TRUE,  code |-> 2,  left |-> TRUE],
     __rsub__     |-> [fn |-> "sub", first |-> TRUE,  code |-> 18, left |-> FALSE],
     __rtruediv__ |-> [fn |-> "div", first |-> TRUE,  code |-> 19, left |-> FALSE],
     __rpow__     |-> [fn |-> "pow", first |-> TRUE,  code |-> 20, left |-> FALSE]]

\* a successful binary operator call c on self computed the expected native
\* value, appended the expected record, and, the other operand being a number,
\* that record replays, from the value of the receiver as prior result, to
\* the value computed
RecordsInOrder(self, method, other, c) ==
    (c.outcome = "ok" /\ IsRef(c.result)) =>
        LET e == Expected[method]
            log == LogAfter(c, c.result[2])
            new_op == log[Len(log)]
            receiver == IF heap[self].standalone_param THEN Ref(self) ELSE None
            other_expr == IF IsRef(other) THEN heap[other[2]].symbol_expr ELSE other
            value == IF e.first
                     THEN ExprBinary(e.fn, other_expr, heap[self].symbol_expr)
                     ELSE ExprBinary(e.fn, heap[self].symbol_expr, other_expr)
        IN  /\ c.heap[c.result[2]].symbol_expr = value
            /\ new_op.kind = "INSTRUCTION"
            /\ new_op.op = e.code
            /\ new_op.lhs = (IF e.left THEN other ELSE receiver)
            /\ new_op.rhs = (IF e.left THEN receiver ELSE other)
            /\ ~IsRef(other) => _replay(<<new_op>>, heap[self].symbol_expr) = value

\* C13: a reflected binary operation with a number c on receiver e computes
\* `c op e` and appends an instruction that replays in that order: RSUB, RDIV
\* and RPOW with the receiver (or the prior result) on the left and c on the
\* right, ADD and MUL with c on the left and the receiver (or the prior
\* result) on the right; a plain operation records the receiver on the left
\* and the other operand on the right.
C13_ReflectedRecordedInOrder ==
    \A self \in Receivers, method \in DOMAIN Expected :
        /\ \A c \in {Zero, Two} :
              RecordsInOrder(self, method, c, binary(self, method, c))
        /\ \A other \in Others :
              ~Expected[method].first =>
                  RecordsInOrder(self, method, other, binary(self, method, other))

\* a reflected subtraction from a number was made on a derived expression and
\* recorded with the prior result on the left
C13_Witness ==
    /\ last.op = "binary"
    /\ last.outcome = "ok"
    /\ IsRef(last.result)
    /\ LET log == Log(last.result[2])
       IN  /\ Len(log) = 2
           /\ log[2].op = _OPCode.RSUB
           /\ log[2].lhs = None
           /\ log[2].rhs = Two

\* the record a successful call appended to the log of the object it returned
NewOp(c) == LogAfter(c, c.result[2])[Len(LogAfter(c, c.result[2]))]

\* an operand position of a record holds an object only if the object is
\* flagged standalone
ExplicitOnlyIfStandalone(operand) ==
    IsRef(operand) => heap[operand[2]].standalone_param

\* what records an operand that is an object, were the flag to decide it
ByFlag(operand) ==
    IF heap[operand[2]].standalone_param THEN operand ELSE None

\* C14 as stated: in the record of a binary or unary operation an operand
\* position holds an object only when the object is flagged standalone, and
\* an object without the flag is recorded as None, the receiver and the other
\* operand alike.
C14_OperandsExplicitOnlyIfStandalone ==
    \A self \in Receivers :
        /\ \A method \in {"__add__", "__truediv__"}, other \in Others :
              LET c == binary(self, method, other)
              IN  c.outcome = "ok" =>
                      /\ ExplicitOnlyIfStandalone(NewOp(c).lhs)
                      /\ ExplicitOnlyIfStandalone(NewOp(c).rhs)
                      /\ NewOp(c).lhs = ByFlag(Ref(self))
                      /\ NewOp(c).rhs = ByFlag(other)
        /\ \A method \in UnaryCalls :
              /\ ExplicitOnlyIfStandalone(NewOp(unary(self, method)).lhs)
              /\ NewOp(unary(self, method)).lhs = ByFlag(Ref(self))

\* C14, amended: the position of the receiver holds the receiver itself when
\* the receiver is flagged standalone and None otherwise; the other operand
\* of a binary operation is recorded as it was passed, an object explicitly
\* whether flagged or not and a number as the number; a unary operation and
\* conjugate leave the right position None.
C14_ReceiverByFlagOtherAsPassed ==
    \A self \in Receivers :
        /\ \A method \in DOMAIN Expected :
              \A other \in (IF Expected[method].first THEN {} ELSE Others) \cup {Two} :
                  LET c == binary(self, method, other)
                      new_op == NewOp(c)
                  IN  c.outcome = "ok" =>
                          IF Expected[method].left
                          THEN new_op.rhs = ByFlag(Ref(self)) /\ new_op.lhs = other
                          ELSE new_op.lhs = ByFlag(Ref(self)) /\ new_op.rhs = other
        /\ \A method \in UnaryCalls :
              /\ NewOp(unary(self, method)).lhs = ByFlag(Ref(self))
              /\ NewOp(unary(self, method)).rhs = None
        /\ NewOp(conjugate(self)).lhs = ByFlag(Ref(self))
        /\ NewOp(conjugate(self)).rhs = None

\* a binary operation on a derived expression with a derived expression
\* recorded the receiver as None and the other operand explicitly
C14_Witness ==
    /\ last.op = "binary"
    /\ last.outcome = "ok"
    /\ IsRef(last.result)
    /\ LET new_op == Log(last.result[2])[Len(Log(last.result[2]))]
       IN  /\ new_op.lhs = None
           /\ IsRef(new_op.rhs)
           /\ ~heap[new_op.rhs[2]].standalone_param

\* C15: built from Parameters by successful binary operations, bind and subs,
\* no object has in its symbols mapping two different Parameters of one name.
C15_NoTwoParametersShareAName ==
    \A i \in Refs :
        \A p \in parameters(i), q \in parameters(i) :
            ParamName(p) = ParamName(q) => p = q

\* the op codes whose instruction has a right operand that replay reads
BinaryOpCodes == {0, 1, 2, 3, 4, 13, 15, 18, 19, 20}

\* C16: the replay log of every object built from standalone Parameters can
\* be replayed from an absent output: its first record is not a substitution
\* and not an instruction with None, the prior result, as an operand that
\* replay reads (the left operand, and the right one of a binary instruction).
C16_FirstRecordNeedsNoPriorResult ==
    \A i \in Refs :
        Log(i) # <<>> =>
            /\ Log(i)[1].kind # "SUBS"
            /\ Log(i)[1].lhs # None
            /\ Log(i)[1].op \in BinaryOpCodes => Log(i)[1].rhs # None

====
